---- MODULE Spec2Model ----
(***************************************************************************)
(* FrameRenderer (Samples/SensorStreamViewer/FrameRenderer.cpp): the two   *)
(* stage admission throttle of ProcessFrame, the per-source-kind dispatch  *)
(* of ConvertToDisplayableImage, the subtype negotiation predicate, the    *)
(* pseudo-colour scanline transforms and the row-by-row bitmap transforms. *)
(*                                                                         *)
(* The module holds several specifications over one set of variables:      *)
(*   Spec           the throttle: worker threads running ProcessFrame, the *)
(*                  UI thread running dispatched handlers and the          *)
(*                  SetBitmapAsync continuations;                          *)
(*   SpecSubtype    GetSubtypeForFrameReader on drawn inputs;              *)
(*   SpecScanline   the three scanline transforms on drawn rows;           *)
(*   SpecTransform  the buffer acquisition / release protocol of           *)
(*                  TransformBitmap, DeepCopyBitmap, TransformVlcBitmap;   *)
(*   SpecCopy       the byte loops of DeepCopyBitmap on drawn geometries.  *)
(* A specification leaves the variables of the others at their initial     *)
(* value.                                                                  *)
(***************************************************************************)
EXTENDS Integers, Sequences, FiniteSets, TLC

VARIABLES
    m_numberOfTasksScheduled, \* the pending counter (InterlockedIncrement/Decrement)
    m_numberOfTasksRunning,   \* the running counter
    phase,        \* phase[f]: where frame f's path through ProcessFrame stands
    kind,         \* kind[f]: inputFrame->FrameReference->SourceKind, once read
    fmt,          \* fmt[f]: inputBitmap->BitmapPixelFormat, once read
    log,          \* log[f]: the counter and stage steps taken for f, in order
    uiPending,    \* work items posted to the UI dispatcher and not yet started
    uiCurrent,    \* the frame whose dispatched handler the UI thread is inside (0: none)
    source,       \* the frame whose bitmap is m_imageElement->Source (0: none yet)
    raised,       \* frames whose ProcessFrame call let an exception reach its caller
    burst,        \* "open": no frame has left the pending stage yet; "closed": some
                  \* have, and no frame arrived after one had; "broken": one did
    stKind, stSubtype, stResult,                       \* SpecSubtype
    slTransform, slSensor, slInput, slOutput,          \* SpecScanline
    tbRoutine, tbPc, tbHandles, tbHeld, tbRow, tbHeight, tbExit,       \* SpecTransform
    cpWidth, cpHeight, cpInStride, cpOutStride, cpY, cpReads, cpWrites, cpOut \* SpecCopy

throttleVars == <<m_numberOfTasksScheduled, m_numberOfTasksRunning, phase, kind, fmt,
                  log, uiPending, uiCurrent, source, raised, burst>>
subtypeVars == <<stKind, stSubtype, stResult>>
scanlineVars == <<slTransform, slSensor, slInput, slOutput>>
transformVars == <<tbRoutine, tbPc, tbHandles, tbHeld, tbRow, tbHeight, tbExit>>
copyVars == <<cpWidth, cpHeight, cpInStride, cpOutStride, cpY, cpReads, cpWrites, cpOut>>
vars == <<throttleVars, subtypeVars, scanlineVars, transformVars, copyVars>>

(***************************************************************************)
(* Bounds of the model.                                                    *)
(***************************************************************************)
NumFrames == 2

Frames == 1..NumFrames

(***************************************************************************)
(* The caps.  FrameRenderer.h, which sets them, is not among the sources;  *)
(* the specification names them Cmax_pending and Cmax_running without a    *)
(* value.  Every formula below is stated in terms of the two names.        *)
(***************************************************************************)
c_maxNumberOfTasksScheduled == 1

c_maxNumberOfTasksRunning == 1

(***************************************************************************)
(* Source kinds and pixel formats a frame can carry.  "Custom" stands for  *)
(* every MediaFrameSourceKind other than the three the switch names,       *)
(* "Nv12" for a pixel format none of the cases accepts.                    *)
(***************************************************************************)
SourceKinds == {"Color", "Depth", "Infrared", "Custom"}

PixelFormats == {"Bgra8", "Gray8", "Gray16", "Nv12"}

Unread == "unread"

(***************************************************************************)
(* ConvertToDisplayableImage, lines 284-391: the routine the switch picks  *)
(* for (SourceKind, BitmapPixelFormat, PixelWidth), or "nullptr" when it   *)
(* picks none.                                                             *)
(***************************************************************************)
\* 640 / 4, line 306
VlcPixelWidth == 160

\* the widths a frame is drawn with: that of line 306 and another
PixelWidths == {VlcPixelWidth, 640}

ConvertMutDepthAnyGray(k, p, w) ==
    CASE k = "Color" /\ p = "Bgra8" ->
            IF w = VlcPixelWidth THEN "TransformVlcBitmap" ELSE "DeepCopyBitmap"
      [] k = "Depth" /\ p \in {"Gray16", "Gray8"} -> "TransformBitmap"
      [] k = "Infrared" /\ p \in {"Gray8", "Gray16"} -> "TransformBitmap"
      [] OTHER -> "nullptr"

ConvertToDisplayableImage(k, p, w) ==
    CASE k = "Color" ->
            IF p # "Bgra8" THEN "nullptr"
            ELSE IF w = VlcPixelWidth THEN "TransformVlcBitmap"
            ELSE "DeepCopyBitmap"
      [] k = "Depth" ->
            IF p = "Gray16" THEN "TransformBitmap" ELSE "nullptr"
      [] k = "Infrared" ->
            CASE p = "Gray8" -> "TransformBitmap"
              [] p = "Gray16" -> "TransformBitmap"
              [] OTHER -> "nullptr"
      [] OTHER -> "nullptr"

(***************************************************************************)
(* The two cap tests, lines 210 and 235: the value InterlockedIncrement    *)
(* returned against the cap.                                               *)
(***************************************************************************)
PendingOverCapMutOffByOne(n) == n > c_maxNumberOfTasksScheduled + 1

PendingOverCapMutAtCap(n) == n >= c_maxNumberOfTasksScheduled

PendingOverCap(n) == n > c_maxNumberOfTasksScheduled

RunningOverCapMutOffByOne(n) == n > c_maxNumberOfTasksRunning + 1

RunningOverCap(n) == n > c_maxNumberOfTasksRunning

ThrottleOnly == UNCHANGED <<subtypeVars, scanlineVars, transformVars, copyVars>>

Step(f, ph, ev) ==
    /\ phase' = [phase EXCEPT ![f] = ph]
    /\ log' = [log EXCEPT ![f] = IF ev = "" THEN @ ELSE Append(@, ev)]

ThrottleInit ==
    /\ m_numberOfTasksScheduled = 0
    /\ m_numberOfTasksRunning = 0
    /\ phase = [f \in Frames |-> "new"]
    /\ kind = [f \in Frames |-> Unread]
    /\ fmt = [f \in Frames |-> Unread]
    /\ log = [f \in Frames |-> << >>]
    /\ uiPending = {}
    /\ uiCurrent = 0
    /\ source = 0
    /\ raised = {}
    /\ burst = "open"

(***************************************************************************)
(* ProcessFrame on a worker thread.  Frames are numbered in the order of   *)
(* their calls: frame f's call starts once frame f-1's has.                *)
(***************************************************************************)
Called(f) == IF f = 1 THEN TRUE ELSE phase[f - 1] # "new"

\* lines 202-205: frame == nullptr, return.
ProcessFrameNull(f) ==
    /\ phase[f] = "new" /\ Called(f)
    /\ Step(f, "ignored", "")
    /\ UNCHANGED <<m_numberOfTasksScheduled, m_numberOfTasksRunning, kind, fmt,
                   uiPending, uiCurrent, source, raised, burst>>
    /\ ThrottleOnly

\* line 210: InterlockedIncrement(&m_numberOfTasksScheduled) and the cap test.
ProcessFrameIncrement(f) ==
    /\ phase[f] = "new" /\ Called(f)
    /\ LET n == m_numberOfTasksScheduled + 1 IN
        /\ m_numberOfTasksScheduled' = n
        /\ Step(f, IF PendingOverCap(n) THEN "overcap" ELSE "admitted", "pendInc")
    /\ burst' = IF burst = "open" THEN "open" ELSE "broken"
    /\ UNCHANGED <<m_numberOfTasksRunning, kind, fmt, uiPending, uiCurrent, source,
                   raised>>
    /\ ThrottleOnly

\* lines 212-214: the rejected arrival undoes its increment and returns.
ProcessFrameUndo(f) ==
    /\ phase[f] = "overcap"
    /\ m_numberOfTasksScheduled' = m_numberOfTasksScheduled - 1
    /\ Step(f, "dropped", "pendUndo")
    /\ burst' = IF burst = "open" THEN "closed" ELSE burst
    /\ UNCHANGED <<m_numberOfTasksRunning, kind, fmt, uiPending, uiCurrent, source,
                   raised>>
    /\ ThrottleOnly

\* line 217 with lines 284-391: frame->VideoMediaFrame is null (286-289), or the
\* switch reads the source kind, the pixel format and the width and picks a
\* routine; the
\* routine returns a bitmap, or raises a Platform::Exception that the catch of
\* lines 383-388 turns into nullptr.
Convert(f) ==
    /\ phase[f] = "admitted"
    /\ \/ /\ Step(f, "nobitmap", "convert")
          /\ UNCHANGED <<kind, fmt>>
       \/ \E k \in SourceKinds, p \in PixelFormats, w \in PixelWidths :
            /\ kind' = [kind EXCEPT ![f] = k]
            /\ fmt' = [fmt EXCEPT ![f] = p]
            /\ IF ConvertToDisplayableImage(k, p, w) = "nullptr"
               THEN Step(f, "nobitmap", "convert")
               ELSE \/ Step(f, "converted", "convert")
                    \/ Step(f, "nobitmap", "convertFault")
    /\ UNCHANGED <<m_numberOfTasksScheduled, m_numberOfTasksRunning, uiPending,
                   uiCurrent, source, raised, burst>>
    /\ ThrottleOnly

\* lines 218-223: no bitmap, release the pending slot and return.
ProcessFrameNoBitmap(f) ==
    /\ phase[f] = "nobitmap"
    /\ m_numberOfTasksScheduled' = m_numberOfTasksScheduled - 1
    /\ Step(f, "noimage", "pendDec")
    /\ burst' = IF burst = "open" THEN "closed" ELSE burst
    /\ UNCHANGED <<m_numberOfTasksRunning, kind, fmt, uiPending, uiCurrent, source,
                   raised>>
    /\ ThrottleOnly

\* lines 225-228, 254: Dispatcher->RunAsync posts the handler and ProcessFrame
\* returns.
Dispatch(f) ==
    /\ phase[f] = "converted"
    /\ uiPending' = uiPending \cup {<<"handler", f>>}
    /\ Step(f, "queued", "")
    /\ UNCHANGED <<m_numberOfTasksScheduled, m_numberOfTasksRunning, kind, fmt,
                   uiCurrent, source, raised, burst>>
    /\ ThrottleOnly

\* line 225: RunAsync raises (the dispatcher refuses the work item); nothing in
\* ProcessFrame catches it, so it reaches the caller with the pending slot held.
DispatchFails(f) ==
    /\ phase[f] = "converted"
    /\ raised' = raised \cup {f}
    /\ Step(f, "dispatchFailed", "dispatchFault")
    /\ burst' = IF burst = "open" THEN "closed" ELSE burst
    /\ UNCHANGED <<m_numberOfTasksScheduled, m_numberOfTasksRunning, kind, fmt,
                   uiPending, uiCurrent, source>>
    /\ ThrottleOnly

(***************************************************************************)
(* The dispatched handler, lines 229-254, on the UI thread: one work item  *)
(* at a time, each counter operation a step other threads can observe.     *)
(***************************************************************************)
HandlerStartMutNoRelease(f) ==
    /\ uiCurrent = 0
    /\ <<"handler", f>> \in uiPending
    /\ uiPending' = uiPending \ {<<"handler", f>>}
    /\ uiCurrent' = f
    /\ Step(f, "handler230", "")
    /\ UNCHANGED <<m_numberOfTasksScheduled, m_numberOfTasksRunning, kind, fmt,
                   source, raised, burst>>
    /\ ThrottleOnly

\* line 230: InterlockedDecrement(&m_numberOfTasksScheduled).
HandlerStart(f) ==
    /\ uiCurrent = 0
    /\ <<"handler", f>> \in uiPending
    /\ uiPending' = uiPending \ {<<"handler", f>>}
    /\ uiCurrent' = f
    /\ m_numberOfTasksScheduled' = m_numberOfTasksScheduled - 1
    /\ Step(f, "handler230", "pendDec")
    /\ burst' = IF burst = "open" THEN "closed" ELSE burst
    /\ UNCHANGED <<m_numberOfTasksRunning, kind, fmt, source, raised>>
    /\ ThrottleOnly

\* line 235: InterlockedIncrement(&m_numberOfTasksRunning) and the cap test.
HandlerIncrement(f) ==
    /\ uiCurrent = f /\ phase[f] = "handler230"
    /\ LET n == m_numberOfTasksRunning + 1 IN
        /\ m_numberOfTasksRunning' = n
        /\ Step(f, IF RunningOverCap(n) THEN "overrun" ELSE "accepted", "runInc")
    /\ UNCHANGED <<m_numberOfTasksScheduled, kind, fmt, uiPending, uiCurrent, source,
                   raised, burst>>
    /\ ThrottleOnly

\* lines 237-239: over the cap, undo the increment and drop the bitmap.
HandlerUndo(f) ==
    /\ uiCurrent = f /\ phase[f] = "overrun"
    /\ m_numberOfTasksRunning' = m_numberOfTasksRunning - 1
    /\ uiCurrent' = 0
    /\ Step(f, "runDropped", "runUndo")
    /\ UNCHANGED <<m_numberOfTasksScheduled, kind, fmt, uiPending, source, raised,
                   burst>>
    /\ ThrottleOnly

\* lines 242-253: SetBitmapAsync is started, the continuation is attached and
\* the handler returns.
HandlerPresent(f) ==
    /\ uiCurrent = f /\ phase[f] = "accepted"
    /\ uiCurrent' = 0
    /\ Step(f, "presenting", "present")
    /\ UNCHANGED <<m_numberOfTasksScheduled, m_numberOfTasksRunning, kind, fmt,
                   uiPending, source, raised, burst>>
    /\ ThrottleOnly

\* SetBitmapAsync completes: the continuation of lines 247-253 is posted to the
\* UI thread (task_continuation_context::use_current()).
SetBitmapCompleted(f) ==
    /\ phase[f] = "presenting"
    /\ uiPending' = uiPending \cup {<<"continuation", f>>}
    /\ Step(f, "presented", "presentDone")
    /\ UNCHANGED <<m_numberOfTasksScheduled, m_numberOfTasksRunning, kind, fmt,
                   uiCurrent, source, raised, burst>>
    /\ ThrottleOnly

\* SetBitmapAsync fails: the continuation of line 247 takes no task argument
\* (a value-based continuation), so it is not run for a faulted antecedent.
SetBitmapFailed(f) ==
    /\ phase[f] = "presenting"
    /\ Step(f, "presentFailed", "presentFault")
    /\ UNCHANGED <<m_numberOfTasksScheduled, m_numberOfTasksRunning, kind, fmt,
                   uiPending, uiCurrent, source, raised, burst>>
    /\ ThrottleOnly

\* lines 249-251: the continuation on the UI thread.
Continuation(f) ==
    /\ uiCurrent = 0
    /\ <<"continuation", f>> \in uiPending
    /\ uiPending' = uiPending \ {<<"continuation", f>>}
    /\ source' = f
    /\ m_numberOfTasksRunning' = m_numberOfTasksRunning - 1
    /\ Step(f, "shown", "runDec")
    /\ UNCHANGED <<m_numberOfTasksScheduled, kind, fmt, uiCurrent, raised, burst>>
    /\ ThrottleOnly

ThrottleNext ==
    \E f \in Frames :
        \/ ProcessFrameNull(f)
        \/ ProcessFrameIncrement(f)
        \/ ProcessFrameUndo(f)
        \/ Convert(f)
        \/ ProcessFrameNoBitmap(f)
        \/ Dispatch(f)
        \/ DispatchFails(f)
        \/ HandlerStart(f)
        \/ HandlerIncrement(f)
        \/ HandlerUndo(f)
        \/ HandlerPresent(f)
        \/ SetBitmapCompleted(f)
        \/ SetBitmapFailed(f)
        \/ Continuation(f)

(***************************************************************************)
(* The resting values of the other specifications' variables.              *)
(***************************************************************************)
ThrottleIdle ==
    /\ ThrottleInit

SubtypeIdle ==
    /\ stKind = "none" /\ stSubtype = << >>
    /\ stResult = [state |-> "uncalled", value |-> << >>]

ScanlineIdle ==
    /\ slTransform = "none" /\ slSensor = "" /\ slInput = << >> /\ slOutput = << >>

TransformIdle ==
    /\ tbRoutine = "none" /\ tbPc = "idle" /\ tbHandles = {} /\ tbHeld = {} /\ tbRow = 0
    /\ tbHeight = 0 /\ tbExit = "none"

CopyIdle ==
    /\ cpWidth = 0 /\ cpHeight = 0 /\ cpInStride = 0 /\ cpOutStride = 0 /\ cpY = 0
    /\ cpReads = {} /\ cpWrites = {} /\ cpOut = << >>

Init == ThrottleInit /\ SubtypeIdle /\ ScanlineIdle /\ TransformIdle /\ CopyIdle

Next == ThrottleNext

Spec == Init /\ [][Next]_vars

(***************************************************************************)
(* Vocabulary of the throttle claims.                                      *)
(***************************************************************************)
TerminalPhases ==
    {"ignored", "dropped", "noimage", "dispatchFailed", "runDropped", "presentFailed",
     "shown"}

\* every frame path that was started has finished
AllStartedFinished == \A f \in Frames : phase[f] \in TerminalPhases \cup {"new"}

Has(f, ev) == \E i \in DOMAIN log[f] : log[f][i] = ev

\* the non-null frames whose ProcessFrame call has passed line 210
Arrived == {f \in Frames : Has(f, "pendInc")}

\* C1: once every started frame path has finished, on whichever exit, both
\* counters are 0.
C1_SlotsReleasedOnEveryExit ==
    AllStartedFinished =>
        m_numberOfTasksScheduled = 0 /\ m_numberOfTasksRunning = 0

\* C2: Cmax_pending + 1 concurrent arrivals (all of them increment before any
\* of them leaves the pending stage): exactly Cmax_pending enter preparation, exactly one is dropped
\* at the pending stage, and once all of them have finished both counters
\* are 0.
C2_BurstAdmitsCapAndReturnsToZero ==
    (Cardinality(Arrived) = c_maxNumberOfTasksScheduled + 1 /\ burst # "broken") =>
        /\ Cardinality({f \in Arrived : ~Has(f, "pendUndo") /\ phase[f] # "overcap"})
              = c_maxNumberOfTasksScheduled
        /\ Cardinality({f \in Arrived : phase[f] \in {"overcap", "dropped"}}) = 1
        /\ (\A f \in Arrived : phase[f] \in TerminalPhases) =>
              m_numberOfTasksScheduled = 0 /\ m_numberOfTasksRunning = 0

\* The admission part of C2 alone, which the code satisfies.
BurstAdmitsCap ==
    (Cardinality(Arrived) = c_maxNumberOfTasksScheduled + 1 /\ burst # "broken") =>
        /\ Cardinality({f \in Arrived : ~Has(f, "pendUndo") /\ phase[f] # "overcap"})
              = c_maxNumberOfTasksScheduled
        /\ Cardinality({f \in Arrived : phase[f] \in {"overcap", "dropped"}}) = 1

\* C3 as stated: in every reachable state each counter lies within 0..cap.
C3_CountersWithinCapsAlways ==
    /\ m_numberOfTasksScheduled \in 0..c_maxNumberOfTasksScheduled
    /\ m_numberOfTasksRunning \in 0..c_maxNumberOfTasksRunning

\* C3 (amended): neither counter is ever negative, and a counter exceeds its cap
\* only by the rejected increments that have not been undone yet: the counter
\* less the arrivals (handlers) standing between an over-cap increment and its
\* decrement lies within 0..cap.
C3_CountersWithinCapsUpToRejected ==
    LET overP == Cardinality({f \in Frames : phase[f] = "overcap"})
        overR == Cardinality({f \in Frames : phase[f] = "overrun"})
    IN /\ m_numberOfTasksScheduled >= 0
       /\ m_numberOfTasksRunning >= 0
       /\ m_numberOfTasksScheduled - overP \in 0..c_maxNumberOfTasksScheduled
       /\ m_numberOfTasksRunning - overR \in 0..c_maxNumberOfTasksRunning

\* a rejected arrival has pushed the pending counter above its cap
C3_Witness ==
    /\ \E f \in Frames : phase[f] = "overcap"
    /\ m_numberOfTasksScheduled = c_maxNumberOfTasksScheduled + 1

\* the bitmaps in flight toward the display: running increment accepted,
\* SetBitmapAsync not yet completed
InFlight == {f \in Frames : phase[f] \in {"accepted", "presenting"}}

\* C4: never more than c_maxNumberOfTasksRunning bitmaps in flight; a handler
\* whose running increment came out above the cap decrements again and never
\* calls SetBitmapAsync.
C4_InFlightCapped ==
    /\ Cardinality(InFlight) <= c_maxNumberOfTasksRunning
    /\ \A f \in Frames :
        /\ phase[f] = "overrun" => ~Has(f, "present")
        /\ phase[f] = "runDropped" =>
              /\ ~Has(f, "present")
              /\ log[f][Len(log[f])] = "runUndo"
              /\ log[f][Len(log[f]) - 1] = "runInc"
        /\ Has(f, "runUndo") => phase[f] = "runDropped"

\* one bitmap is being presented and another was dropped at the running stage
C4_Witness ==
    \E f, g \in Frames : phase[f] = "presenting" /\ phase[g] = "runDropped"

Rank(ev) ==
    CASE ev = "pendInc" -> 1
      [] ev \in {"convert", "convertFault", "pendUndo"} -> 2
      [] ev \in {"pendDec", "dispatchFault"} -> 3
      [] ev = "runInc" -> 4
      [] ev \in {"present", "runUndo"} -> 5
      [] ev \in {"presentDone", "presentFault"} -> 6
      [] ev = "runDec" -> 7

\* C5: within one frame's path the steps come in the order pending increment,
\* conversion, pending decrement, running increment, present, running
\* decrement: no running increment before the frame's pending slot was released,
\* no present before an accepted running increment, no running release before
\* present completed.
C5_StagesInOrder ==
    \A f \in Frames :
        /\ \A i, j \in DOMAIN log[f] : i < j => Rank(log[f][i]) < Rank(log[f][j])
        /\ Has(f, "convert") \/ Has(f, "convertFault") => Has(f, "pendInc")
        /\ Has(f, "pendDec") => Has(f, "convert") \/ Has(f, "convertFault")
        /\ Has(f, "runInc") => Has(f, "pendDec") /\ Has(f, "convert")
        /\ Has(f, "present") => Has(f, "runInc") /\ ~Has(f, "runUndo")
        /\ Has(f, "presentDone") => Has(f, "present")
        /\ Has(f, "runDec") => Has(f, "presentDone")

\* a frame went through every stage
C5_Witness ==
    \E f \in Frames :
        log[f] = <<"pendInc", "convert", "pendDec", "runInc", "present", "presentDone",
                   "runDec">>

\* the (source kind, pixel format) combinations C6 calls accepted
AcceptedCombination(k, p) ==
    \/ k = "Color" /\ p = "Bgra8"
    \/ k = "Depth" /\ p = "Gray16"
    \/ k = "Infrared" /\ p \in {"Gray8", "Gray16"}

\* C6: an admitted frame whose combination is not accepted gets no bitmap:
\* its path is pending increment, conversion, pending decrement and nothing
\* else; the running counter is never incremented for it, nothing of it reaches
\* the display and no error reaches the caller.
C6_UnsupportedFormatDropped ==
    \A f \in Frames :
        (kind[f] # Unread /\ ~AcceptedCombination(kind[f], fmt[f])) =>
            /\ \/ phase[f] = "nobitmap" /\ log[f] = <<"pendInc", "convert">>
               \/ phase[f] = "noimage" /\ log[f] = <<"pendInc", "convert", "pendDec">>
            /\ ~Has(f, "runInc")
            /\ source # f
            /\ f \notin raised
            /\ uiCurrent # f
            /\ \A w \in uiPending : w[2] # f

\* a frame of an unsupported combination has been converted and dropped
C6_Witness ==
    \E f \in Frames :
        /\ kind[f] # Unread /\ ~AcceptedCombination(kind[f], fmt[f])
        /\ phase[f] = "noimage"

(***************************************************************************)
(* GetSubtypeForFrameReader, lines 257-282.  A String is the sequence of   *)
(* its UTF-16 code units; the result is nullptr or a String.               *)
(***************************************************************************)
MaxSubtypeLen == 3

\* the code units of the characters 1 6 8 D L d l
SubtypeUnits == {49, 54, 56, 68, 76, 100, 108}

Subtypes == UNION {[1..n -> SubtypeUnits] : n \in 1..MaxSubtypeLen}

STR_D16 == <<68, 49, 54>>

STR_L8 == <<76, 56>>

STR_L16 == <<76, 49, 54>>

\* MediaEncodingSubtypes::Bgra8 (line 267), the string "ARGB32"
MediaEncodingSubtypes_Bgra8 == <<65, 82, 71, 66, 51, 50>>

CSTR_EQUAL == 2

Uncalled == [state |-> "uncalled", value |-> << >>]

Nullptr == [state |-> "nullptr", value |-> << >>]

StringResult(str) == [state |-> "string", value |-> str]

\* the upper-casing CompareStringOrdinal applies when bIgnoreCase is TRUE
ToUpperUnit(u) == IF u \in 97..122 THEN u - 32 ELSE u

\* CompareStringOrdinal(a, -1, b, -1, bIgnoreCase): 1 less, 2 equal, 3 greater,
\* by code unit from position i on.
RECURSIVE CompareStringOrdinalFrom(_, _, _, _)
CompareStringOrdinalFrom(a, b, i, bIgnoreCase) ==
    IF i > Len(a) /\ i > Len(b) THEN CSTR_EQUAL
    ELSE IF i > Len(a) THEN 1
    ELSE IF i > Len(b) THEN 3
    ELSE LET x == IF bIgnoreCase THEN ToUpperUnit(a[i]) ELSE a[i]
             y == IF bIgnoreCase THEN ToUpperUnit(b[i]) ELSE b[i]
         IN IF x < y THEN 1
            ELSE IF x > y THEN 3
            ELSE CompareStringOrdinalFrom(a, b, i + 1, bIgnoreCase)

CompareStringOrdinal(a, b, bIgnoreCase) == CompareStringOrdinalFrom(a, b, 1, bIgnoreCase)

GetSubtypeForFrameReader(k, subtype) ==
    CASE k = "Color" -> StringResult(MediaEncodingSubtypes_Bgra8)
      [] k = "Depth" ->
            IF CompareStringOrdinal(subtype, STR_D16, TRUE) = CSTR_EQUAL
            THEN StringResult(subtype) ELSE Nullptr
      [] k = "Infrared" ->
            IF \/ CompareStringOrdinal(subtype, STR_L8, TRUE) = CSTR_EQUAL
               \/ CompareStringOrdinal(subtype, STR_D16, TRUE) = CSTR_EQUAL
            THEN StringResult(subtype) ELSE Nullptr
      [] OTHER -> Nullptr

SubtypeOnly == UNCHANGED <<throttleVars, scanlineVars, transformVars, copyVars>>

SubtypeInit ==
    /\ stKind \in SourceKinds
    /\ stSubtype \in Subtypes
    /\ stResult = Uncalled

\* the capture collaborator asks for the subtype to request
SubtypeCall ==
    /\ stResult = Uncalled
    /\ stResult' = GetSubtypeForFrameReader(stKind, stSubtype)
    /\ UNCHANGED <<stKind, stSubtype>>
    /\ SubtypeOnly

InitSubtype == ThrottleIdle /\ SubtypeInit /\ ScanlineIdle /\ TransformIdle /\ CopyIdle

NextSubtype == SubtypeCall

SpecSubtype == InitSubtype /\ [][NextSubtype]_vars

EqualsIgnoringCase(a, b) ==
    /\ Len(a) = Len(b)
    /\ \A i \in 1..Len(a) : ToUpperUnit(a[i]) = ToUpperUnit(b[i])

\* C7: Color accepts every subtype (and answers Bgra8); Depth accepts exactly
\* the subtypes equal to D16 ignoring case; Infrared accepts exactly the subtypes
\* equal to L8 or L16 ignoring case; every other source kind is rejected; an
\* accepted Depth or Infrared subtype is returned as it was given.
C7_SubtypeDecision ==
    LET accepts ==
            CASE stKind = "Color" -> TRUE
              [] stKind = "Depth" -> EqualsIgnoringCase(stSubtype, STR_D16)
              [] stKind = "Infrared" ->
                    \/ EqualsIgnoringCase(stSubtype, STR_L8)
                    \/ EqualsIgnoringCase(stSubtype, STR_L16)
              [] OTHER -> FALSE
    IN stResult # Uncalled =>
        /\ (stResult.state = "string") = accepts
        /\ accepts => stResult.value = IF stKind = "Color" THEN MediaEncodingSubtypes_Bgra8
                                                    ELSE stSubtype

(***************************************************************************)
(* The pseudo-colour scanline transforms, lines 53-187.                    *)
(*                                                                         *)
(* A float is modelled by the real number it stands for, written as a      *)
(* fraction <<numerator, denominator>> of integers: the rounding of the    *)
(* float operations is not modelled.  powf(x, 12) is computed in fixed     *)
(* point with 15 fractional bits, so a colour taken from the infrared      *)
(* table may differ from the code's in the last unit of a channel.  The    *)
(* invalid-sample branches read no float.                                  *)
(***************************************************************************)
ScanWidth == 2

\* bytes a raw row is drawn from: they make the 16-bit samples 0, 1, 500
\* (0x01F4), 4000 (0x0FA0), 4001 (0x0FA1), 65535 among others
ScanBytes == {0, 1, 15, 160, 161, 244, 255}

\* struct ColorBGRA { byte B, G, R, A; } (line 57) from a braced initializer,
\* whose values go to the members in declaration order
ColorBGRA(b0, b1, b2, b3) == [B |-> b0, G |-> b1, R |-> b2, A |-> b3]

colorRamp ==
    << ColorBGRA(255, 127, 0, 0),
       ColorBGRA(255, 255, 0, 0),
       ColorBGRA(255, 255, 127, 0),
       ColorBGRA(255, 255, 255, 0),
       ColorBGRA(255, 127, 255, 127),
       ColorBGRA(255, 0, 255, 255),
       ColorBGRA(255, 0, 127, 255),
       ColorBGRA(255, 0, 0, 255),
       ColorBGRA(255, 0, 0, 127) >>

Min(a, b) == IF a < b THEN a ELSE b

Max(a, b) == IF a > b THEN a ELSE b

\* lines 74-95, for a value >= 0
ColorRampInterpolation(value) ==
    LET rampSteps == Len(colorRamp) - 1
        scaledNum == value[1] * rampSteps        \* scaled = scaledNum / value[2]
        integer == scaledNum \div value[2]
        index == Min(Max(0, integer), rampSteps - 1)
        prev == colorRamp[index + 1]
        next == colorRamp[index + 2]
        alpha == ((scaledNum - integer * value[2]) * 255) \div value[2]
        beta == 255 - alpha
    IN ColorBGRA(((prev.A * beta + next.A * alpha) \div 255) % 256,
                 ((prev.R * beta + next.R * alpha) \div 255) % 256,
                 ((prev.G * beta + next.G * alpha) \div 255) % 256,
                 ((prev.B * beta + next.B * alpha) \div 255) % 256)

\* lines 98-101
GeneratePseudoColorLookupTable(index, size) == ColorRampInterpolation(<<index, size>>)

\* powf(1 - index/size, 12) with 15 fractional bits, for size = 1024
Pow12Q15(index, size) ==
    LET u == size - index
        p3 == (u * u * u) \div 32768
        p6 == (p3 * p3) \div 32768
    IN (p6 * p6) \div 32768

\* lines 104-112
GenerateInfraredRampLookupTable(index, size) ==
    ColorRampInterpolation(<<Pow12Q15(index, size), 32768>>)

\* the size of both tables, lines 114-115
LookupTableSize == 1024

\* LookupTable::GetValue: the bucket of a value, round(v * (S - 1)) clamped to
\* 0..S-1
LookupTableIndex(value, size) ==
    IF value[1] <= 0 THEN 0
    ELSE Min((2 * value[1] * (size - 1) + value[2]) \div (2 * value[2]), size - 1)

\* lines 117-120: colorLookupTable.GetValue(value)
PseudoColor(value) ==
    GeneratePseudoColorLookupTable(LookupTableIndex(value, LookupTableSize), LookupTableSize)

\* lines 122-125: infraredLookupTable.GetValue(value)
InfraredColor(value) ==
    GenerateInfraredRampLookupTable(LookupTableIndex(value, LookupTableSize), LookupTableSize)

\* reinterpret_cast<UINT16*>(inputRowBytes)[x], x from 0 (little endian)
ReadUInt16(inputRowBytes, x) == inputRowBytes[2 * x + 1] + 256 * inputRowBytes[2 * x + 2]

InvalidPixelMutAllZero == ColorBGRA(0, 0, 0, 0)

\* the braced initializer of lines 141, 162 and 180
InvalidPixel == ColorBGRA(255, 0, 0, 127)

\* the ceiling of line 139
DepthCeiling == 4000

\* lines 128-150; depths in millimetres: depthScale is 1/1000 (line 342) and
\* the reliable range is given in millimetres too
PseudoColorForDepth(pixelWidth, inputRowBytes, minReliableDepth, maxReliableDepth) ==
    [x \in 1..pixelWidth |->
        LET sample == ReadUInt16(inputRowBytes, x - 1) IN
        IF sample = 0 \/ sample > DepthCeiling
        THEN InvalidPixel
        ELSE PseudoColor(<<sample - minReliableDepth, maxReliableDepth - minReliableDepth>>)]

\* lines 153-169
PseudoColorFor16BitInfrared(pixelWidth, inputRowBytes) ==
    [x \in 1..pixelWidth |->
        LET sample == ReadUInt16(inputRowBytes, x - 1) IN
        IF sample = 0 THEN InvalidPixel ELSE InfraredColor(<<sample, 65535>>)]

\* lines 172-187
PseudoColorFor8BitInfrared(pixelWidth, inputRowBytes) ==
    [x \in 1..pixelWidth |->
        IF inputRowBytes[x] = 0 THEN InvalidPixel
        ELSE InfraredColor(<<inputRowBytes[x], 255>>)]

SensorNames == {"Long Throw ToF Depth", "Short Throw ToF Depth"}

\* lines 345-354, in millimetres
MinReliableDepth(sensorName) == IF sensorName = "Long Throw ToF Depth" THEN 500 ELSE 200

MaxReliableDepth(sensorName) == IF sensorName = "Long Throw ToF Depth" THEN 4000 ELSE 1000

ScanlineOnly == UNCHANGED <<throttleVars, subtypeVars, transformVars, copyVars>>

\* a row of ScanWidth pixels: two bytes a pixel for the 16-bit transforms
ScanlineInit ==
    /\ slTransform \in {"PseudoColorForDepth", "PseudoColorFor16BitInfrared",
                        "PseudoColorFor8BitInfrared"}
    /\ slSensor \in SensorNames
    /\ slInput \in [1..(IF slTransform = "PseudoColorFor8BitInfrared"
                        THEN ScanWidth ELSE 2 * ScanWidth) -> ScanBytes]
    /\ slOutput = << >>

\* line 356 with line 543
ApplyDepth ==
    /\ slTransform = "PseudoColorForDepth" /\ slOutput = << >>
    /\ slOutput' = PseudoColorForDepth(ScanWidth, slInput, MinReliableDepth(slSensor),
                                       MaxReliableDepth(slSensor))
    /\ UNCHANGED <<slTransform, slSensor, slInput>>
    /\ ScanlineOnly

\* line 375 with line 543
ApplyInfrared16 ==
    /\ slTransform = "PseudoColorFor16BitInfrared" /\ slOutput = << >>
    /\ slOutput' = PseudoColorFor16BitInfrared(ScanWidth, slInput)
    /\ UNCHANGED <<slTransform, slSensor, slInput>>
    /\ ScanlineOnly

\* line 371 with line 543
ApplyInfrared8 ==
    /\ slTransform = "PseudoColorFor8BitInfrared" /\ slOutput = << >>
    /\ slOutput' = PseudoColorFor8BitInfrared(ScanWidth, slInput)
    /\ UNCHANGED <<slTransform, slSensor, slInput>>
    /\ ScanlineOnly

InitScanline == ThrottleIdle /\ SubtypeIdle /\ ScanlineInit /\ TransformIdle /\ CopyIdle

NextScanline == ApplyDepth \/ ApplyInfrared16 \/ ApplyInfrared8

SpecScanline == InitScanline /\ [][NextScanline]_vars

\* the raw sample of pixel x (from 1) of the drawn row
SampleAt(x) ==
    IF slTransform = "PseudoColorFor8BitInfrared" THEN slInput[x]
    ELSE slInput[2 * x - 1] + 256 * slInput[2 * x]

\* whether the claim calls pixel x's sample invalid
InvalidSample(x) ==
    \/ SampleAt(x) = 0
    \/ slTransform = "PseudoColorForDepth" /\ SampleAt(x) > 4000

\* C8 as stated: every sample 0, and every depth sample above 4000, gives
\* the channels A = 0xFF, R = 0x00, G = 0x00, B = 0x7F.
C8_InvalidSentinelChannels ==
    slOutput # << >> =>
        \A x \in 1..ScanWidth :
            InvalidSample(x) =>
                /\ slOutput[x].A = 255 /\ slOutput[x].R = 0
                /\ slOutput[x].G = 0 /\ slOutput[x].B = 127

\* C8 (amended): every sample 0, and every depth sample above 4000, gives
\* the bytes FF 00 00 7F in the member order of ColorBGRA, that is the channels
\* B = 0xFF, G = 0x00, R = 0x00, A = 0x7F.
C8_InvalidSentinelBytes ==
    slOutput # << >> =>
        \A x \in 1..ScanWidth :
            InvalidSample(x) =>
                /\ slOutput[x].B = 255 /\ slOutput[x].G = 0
                /\ slOutput[x].R = 0 /\ slOutput[x].A = 127

\* a depth row holding the samples 0 and 4001 has been transformed
C8_Witness ==
    /\ slTransform = "PseudoColorForDepth" /\ slOutput # << >>
    /\ \E x, y \in 1..ScanWidth : SampleAt(x) = 0 /\ SampleAt(y) = 4001

(***************************************************************************)
(* The buffer protocol of TransformBitmap (506-553), DeepCopyBitmap        *)
(* (454-504) and TransformVlcBitmap (393-452): the same statements in the  *)
(* same order in all three.  tbHandles are the local handles (BitmapBuffer^*)
(* input, output; IMemoryBufferReference^ inputReference, outputReference) *)
(* that are in scope and hold an object; tbHeld are the objects whose      *)
(* borrowed access has not been given back.  "delete h" closes h's object  *)
(* at once; a handle that leaves scope, at the return or while an          *)
(* exception unwinds the frame, drops its reference, which gives back      *)
(* whatever its object still held.                                         *)
(***************************************************************************)
TbMaxHeight == 3

Routines == {"TransformBitmap", "DeepCopyBitmap", "TransformVlcBitmap"}

\* where each routine's statements are, by step
TbOrder ==
    <<"allocate", "lockInput", "lockOutput", "createInputReference",
      "createOutputReference", "getBuffers", "rows", "deleteOutputReference",
      "deleteInputReference", "deleteOutput", "deleteInput", "return">>

TbAfter(pc) == TbOrder[(CHOOSE i \in DOMAIN TbOrder : TbOrder[i] = pc) + 1]

\* the handle a step binds
TbHandleOf(pc) ==
    CASE pc = "lockInput" -> "input"
      [] pc = "lockOutput" -> "output"
      [] pc = "createInputReference" -> "inputReference"
      [] pc = "createOutputReference" -> "outputReference"

\* the handle a delete statement closes
TbDeleted(pc) ==
    CASE pc = "deleteOutputReference" -> "outputReference"
      [] pc = "deleteInputReference" -> "inputReference"
      [] pc = "deleteOutput" -> "output"
      [] pc = "deleteInput" -> "input"

ScopeExitMutKeepsAccess(handles, held) == held

\* what is still held once the local handles `handles` have left scope
ScopeExit(handles, held) == held \ handles

TransformOnly == UNCHANGED <<throttleVars, subtypeVars, scanlineVars, copyVars>>

TransformInit ==
    /\ tbRoutine \in Routines
    /\ tbHeight \in 1..TbMaxHeight
    /\ tbPc = "allocate"
    /\ tbHandles = {} /\ tbHeld = {} /\ tbRow = 0 /\ tbExit = "none"

\* ref new SoftwareBitmap (509-513, 457-461, 396-400), LockBuffer (515-516),
\* CreateReference (525-526): the call succeeds and binds its handle
TbAcquire ==
    /\ tbPc \in {"allocate", "lockInput", "lockOutput", "createInputReference",
                 "createOutputReference"}
    /\ IF tbPc = "allocate"
       THEN UNCHANGED <<tbHandles, tbHeld>>
       ELSE /\ tbHandles' = tbHandles \cup {TbHandleOf(tbPc)}
            /\ tbHeld' = tbHeld \cup {TbHandleOf(tbPc)}
    /\ tbPc' = TbAfter(tbPc)
    /\ UNCHANGED <<tbRoutine, tbRow, tbHeight, tbExit>>
    /\ TransformOnly

\* the same calls raising a Platform::Exception: nothing is bound
TbAcquireRaises ==
    /\ tbPc \in {"allocate", "lockInput", "lockOutput", "createInputReference",
                 "createOutputReference"}
    /\ tbPc' = "unwinding"
    /\ UNCHANGED <<tbRoutine, tbHandles, tbHeld, tbRow, tbHeight, tbExit>>
    /\ TransformOnly

\* GetBuffer on both references (529-535, 477-483, 412-418); the HRESULT is
\* not looked at
TbGetBuffers ==
    /\ tbPc = "getBuffers"
    /\ tbPc' = "rows"
    /\ UNCHANGED <<tbRoutine, tbHandles, tbHeld, tbRow, tbHeight, tbExit>>
    /\ TransformOnly

\* one pass of the row loop (538-544, 486-495, 420-443)
TbRowDone ==
    /\ tbPc = "rows" /\ tbRow < tbHeight
    /\ tbRow' = tbRow + 1
    /\ UNCHANGED <<tbRoutine, tbPc, tbHandles, tbHeld, tbHeight, tbExit>>
    /\ TransformOnly

\* line 543: the TransformScanline callable raises on this row.  The loops of
\* the other two routines call nothing.
TbRowRaises ==
    /\ tbPc = "rows" /\ tbRow < tbHeight
    /\ tbRoutine = "TransformBitmap"
    /\ tbPc' = "unwinding"
    /\ UNCHANGED <<tbRoutine, tbHandles, tbHeld, tbRow, tbHeight, tbExit>>
    /\ TransformOnly

\* the loop condition fails, on to line 546
TbRowsEnd ==
    /\ tbPc = "rows" /\ tbRow = tbHeight
    /\ tbPc' = TbAfter(tbPc)
    /\ UNCHANGED <<tbRoutine, tbHandles, tbHeld, tbRow, tbHeight, tbExit>>
    /\ TransformOnly

\* lines 547-550 (498-501, 446-449): delete closes the object
TbDelete ==
    /\ tbPc \in {"deleteOutputReference", "deleteInputReference", "deleteOutput",
                 "deleteInput"}
    /\ tbHeld' = tbHeld \ {TbDeleted(tbPc)}
    /\ tbPc' = TbAfter(tbPc)
    /\ UNCHANGED <<tbRoutine, tbHandles, tbRow, tbHeight, tbExit>>
    /\ TransformOnly

\* line 552 (503, 451): return outputBitmap; the locals leave scope
TbReturn ==
    /\ tbPc = "return"
    /\ tbHeld' = ScopeExit(tbHandles, tbHeld)
    /\ tbHandles' = {}
    /\ tbPc' = "left"
    /\ tbExit' = "returned"
    /\ UNCHANGED <<tbRoutine, tbRow, tbHeight>>
    /\ TransformOnly

\* the exception unwinds the frame (lines 546-550 are skipped): the locals
\* leave scope, then the catch of line 383 in the caller gets control
TbUnwind ==
    /\ tbPc = "unwinding"
    /\ tbHeld' = ScopeExit(tbHandles, tbHeld)
    /\ tbHandles' = {}
    /\ tbPc' = "left"
    /\ tbExit' = "raised"
    /\ UNCHANGED <<tbRoutine, tbRow, tbHeight>>
    /\ TransformOnly

InitTransform == ThrottleIdle /\ SubtypeIdle /\ ScanlineIdle /\ TransformInit /\ CopyIdle

NextTransform ==
    \/ TbAcquire
    \/ TbAcquireRaises
    \/ TbGetBuffers
    \/ TbRowDone
    \/ TbRowRaises
    \/ TbRowsEnd
    \/ TbDelete
    \/ TbReturn
    \/ TbUnwind

SpecTransform == InitTransform /\ [][NextTransform]_vars

CopyMaxWidth == 2

CopyMaxHeight == 2

CopyMaxPad == 4

\* bytes of a Bgra8 pixel (lines 302 and 458)
BytesPerPixel == 4

\* the byte the input buffer holds at an offset (a pattern that tells
\* neighbouring offsets apart)
InputByte(offset) == (offset * 7 + 3) % 256

\* an output byte nothing was stored to
Unwritten == -1

Capacity(stride, height) == stride * height

\* line 491: the bound of the inner loop
RowByteCount(pixelWidth, inputStride) == inputStride

\* line 488 / 489: the row's start
RowStart(y, stride) == y * stride

CopyOnly == UNCHANGED <<throttleVars, subtypeVars, scanlineVars, transformVars>>

\* lines 457-471: the output bitmap has the input's width and height; each
\* buffer has its own stride, at least a row of pixels wide
CopyInit ==
    /\ cpWidth \in 1..CopyMaxWidth
    /\ cpHeight \in 1..CopyMaxHeight
    /\ cpInStride \in {cpWidth * BytesPerPixel + pad : pad \in 0..CopyMaxPad}
    /\ cpOutStride \in {cpWidth * BytesPerPixel + pad : pad \in 0..CopyMaxPad}
    /\ cpY = 0
    /\ cpReads = {} /\ cpWrites = {}
    /\ cpOut = [o \in 0..(Capacity(cpOutStride, cpHeight) - 1) |-> Unwritten]

\* lines 486-495, one pass of the outer loop: row cpY is copied byte by byte.
\* A store beyond the output buffer is recorded in cpWrites and changes no
\* byte of the buffer.
CopyRow ==
    /\ cpInStride > 0 /\ cpY < cpHeight
    /\ LET n == RowByteCount(cpWidth, cpInStride)
           inputRow == RowStart(cpY, cpInStride)
           outputRow == RowStart(cpY, cpOutStride)
       IN /\ cpReads' = cpReads \cup {inputRow + x : x \in 0..(n - 1)}
          /\ cpWrites' = cpWrites \cup {outputRow + x : x \in 0..(n - 1)}
          /\ cpOut' = [o \in DOMAIN cpOut |->
                          IF o >= outputRow /\ o < outputRow + n
                          THEN InputByte(inputRow + (o - outputRow))
                          ELSE cpOut[o]]
    /\ cpY' = cpY + 1
    /\ UNCHANGED <<cpWidth, cpHeight, cpInStride, cpOutStride>>
    /\ CopyOnly

InitCopy == ThrottleIdle /\ SubtypeIdle /\ ScanlineIdle /\ TransformIdle /\ CopyInit

NextCopy == CopyRow

SpecCopy == InitCopy /\ [][NextCopy]_vars

\* the offsets of the valid bytes, width x pixelSize a row, of a buffer
ValidRegion(stride) ==
    {y * stride + x : y \in 0..(cpHeight - 1), x \in 0..(cpWidth * BytesPerPixel - 1)}

\* C10: for any input and output stride the copy moves, for each row y,
\* exactly the width x pixelSize valid bytes from y*inputStride to
\* y*outputStride: it reads the valid bytes of the input and nothing else,
\* writes the valid bytes of the output and nothing else, and each valid output
\* byte ends up equal to the input byte of the same row and column.
C10_CopyTouchesOnlyValidBytes ==
    (cpHeight > 0 /\ cpY = cpHeight) =>
        /\ cpReads = ValidRegion(cpInStride)
        /\ cpWrites = ValidRegion(cpOutStride)
        /\ \A y \in 0..(cpHeight - 1), x \in 0..(cpWidth * BytesPerPixel - 1) :
              cpOut[y * cpOutStride + x] = InputByte(y * cpInStride + x)

\* What the loop does when both buffers are packed (stride = width x pixelSize).
CopyExactWhenPacked ==
    (cpHeight > 0 /\ cpY = cpHeight /\ cpInStride = cpWidth * BytesPerPixel
        /\ cpOutStride = cpInStride) =>
        /\ cpReads = ValidRegion(cpInStride)
        /\ cpWrites = ValidRegion(cpOutStride)
        /\ \A o \in DOMAIN cpOut : cpOut[o] = InputByte(o)

(***************************************************************************)
(* SpecAdmission: the throttle of Spec with one more frame than Spec       *)
(* draws, so that an arrival can find the pending counter raised by an     *)
(* earlier arrival that was rejected and has not reached line 212 yet.     *)
(***************************************************************************)
NumArrivals == 3

Arrivals == 1..NumArrivals

AdmissionInit ==
    /\ m_numberOfTasksScheduled = 0
    /\ m_numberOfTasksRunning = 0
    /\ phase = [f \in Arrivals |-> "new"]
    /\ kind = [f \in Arrivals |-> Unread]
    /\ fmt = [f \in Arrivals |-> Unread]
    /\ log = [f \in Arrivals |-> << >>]
    /\ uiPending = {}
    /\ uiCurrent = 0
    /\ source = 0
    /\ raised = {}
    /\ burst = "open"

InitAdmission == AdmissionInit /\ SubtypeIdle /\ ScanlineIdle /\ TransformIdle /\ CopyIdle

NextAdmission ==
    \E f \in Arrivals :
        \/ ProcessFrameNull(f)
        \/ ProcessFrameIncrement(f)
        \/ ProcessFrameUndo(f)
        \/ Convert(f)
        \/ ProcessFrameNoBitmap(f)
        \/ Dispatch(f)
        \/ DispatchFails(f)
        \/ HandlerStart(f)
        \/ HandlerIncrement(f)
        \/ HandlerUndo(f)
        \/ HandlerPresent(f)
        \/ SetBitmapCompleted(f)
        \/ SetBitmapFailed(f)
        \/ Continuation(f)

SpecAdmission == InitAdmission /\ [][NextAdmission]_vars

\* the frames that passed line 210 and whose increment no decrement has taken
\* back yet
Occupants ==
    {g \in DOMAIN phase :
        Has(g, "pendInc") /\ ~Has(g, "pendUndo") /\ ~Has(g, "pendDec")}

\* those of them that were admitted: they hold a pending slot
SlotHolders == {g \in Occupants : phase[g] # "overcap"}

\* those of them that were rejected and stand between lines 210 and 212
RejectedNotUndone == {g \in Occupants : phase[g] = "overcap"}

\* frame f is rejected by the step: its increment at line 210 comes out above
\* the cap
RejectedNow(f) == phase[f] = "new" /\ phase'[f] = "overcap"

\* C11 as stated: a frame is rejected at the pending stage only if, at its
\* increment, at least c_maxNumberOfTasksScheduled other frames hold an admitted
\* pending slot; rejected arrivals that have not undone their increment yet
\* never make a further arrival be rejected.
C11_DroppedOnlyWhenSlotsHeld ==
    [][\A f \in DOMAIN phase :
          RejectedNow(f) =>
              Cardinality(SlotHolders \ {f}) >= c_maxNumberOfTasksScheduled]_vars

\* C11 (amended): a frame is rejected at the pending stage only if, at its
\* increment, at least c_maxNumberOfTasksScheduled other frames have incremented
\* the pending counter and not decremented it yet, whether they were admitted
\* or were themselves rejected and have not undone their increment; and a frame
\* that finds fewer than that is admitted.
C11_DroppedOnlyWhenCounterOccupied ==
    [][\A f \in DOMAIN phase :
          /\ RejectedNow(f) =>
                Cardinality(Occupants \ {f}) >= c_maxNumberOfTasksScheduled
          /\ (phase[f] = "new" /\ phase'[f] = "admitted") =>
                Cardinality(Occupants \ {f}) < c_maxNumberOfTasksScheduled]_vars

\* a frame was rejected after every frame admitted before it had released its
\* slot (the increment followed a decrement), while an earlier rejected arrival
\* had not undone its increment
C11_Witness ==
    \E f, g \in DOMAIN phase :
        /\ g < f
        /\ burst = "broken"
        /\ phase[f] = "overcap" /\ phase[g] = "overcap"
        /\ \A h \in DOMAIN phase :
              (h # f /\ h # g) => (h < g /\ Has(h, "pendDec"))

====
